---------------------------- MODULE Spec2Model ----------------------------
(***************************************************************************)
(* Model of pkg/latency/latency.go: the Measurer (source registry, event   *)
(* list, metadata cell), a single Measure pass (collect, sort, truncate,   *)
(* normalise, attach metadata), the MeasureUntil retry driver and the      *)
(* metric projection of a Measurement.                                     *)
(*                                                                         *)
(* Spec       the setup phase: New, WithIMDS, RegisterSources,             *)
(*            RegisterEvents.                                              *)
(* SpecPass   Measure passes over a registry that Spec can reach.          *)
(* SpecUntil  one MeasureUntil run over a registry that Spec can reach,    *)
(*            a source registered twice under one name included.           *)
(* SpecMetric RegisterMetrics / EmitCloudWatchMetrics of a Measurement.    *)
(* SpecMeta   Measure passes of a measurer that may hold an IMDS client.   *)
(* SpecChart  Chart of a Measurement, with any hidden columns.             *)
(* SpecSort   Measure passes over a log longer than sort.Slice sorts by    *)
(*            insertion.                                                   *)
(***************************************************************************)
EXTENDS Integers, Sequences, FiniteSets, TLC

VARIABLES
    sources,      \* Measurer.sources: source name -> Source object (or NoSrc)
    events,       \* Measurer.events: the registered Event objects, in order
    evSrc,        \* Event.Src of every Event object
    imdsClient,   \* Measurer.imdsClient # nil
    metadata,     \* Measurer.metadata, the memoization cell
    call,         \* the last registration call and what it returned
    data,         \* what each source's origin holds for each event
    derr,         \* whether the source fails for the event
    cache,        \* each Source object's cached read of its origin
    measurement,  \* the Measurement of the last pass (Nil before any)
    prev,         \* the pass before the last one, for comparing two passes
    hist,         \* how the last pass read the sources, and what happened since
    passes,       \* number of passes MeasureUntil has run
    imdsCalls,    \* number of invocations of the metadata resolver
    resolved,     \* the metadata resolver has succeeded at least once
    pc,           \* position of MeasureUntil
    startTime,    \* MeasureUntil: startTime
    now,          \* the clock
    timeout,      \* MeasureUntil: timeout
    retryDelay,   \* MeasureUntil: retryDelay
    done,         \* MeasureUntil: done
    result,       \* what MeasureUntil returned
    lastPass,     \* MeasureUntil: the counts and the verdict of the last pass
    prom,         \* the Prometheus registerer: metric name -> exposed samples
    cw,           \* the CloudWatch calls received, in order
    table         \* the table Chart rendered last

vars == <<sources, events, evSrc, imdsClient, metadata, call, data, derr,
          cache, measurement, prev, hist, passes, imdsCalls, resolved, pc,
          startTime, now, timeout, retryDelay, done, result, lastPass,
          prom, cw, table>>

regVars    == <<sources, events, evSrc, imdsClient, metadata, call>>
srcVars    == <<data, derr, cache>>
passVars   == <<measurement, prev, hist, passes, imdsCalls, resolved>>
untilVars  == <<pc, startTime, now, timeout, retryDelay, done, result, lastPass>>
metricVars == <<prom, cw, table>>

-----------------------------------------------------------------------------
(* Bounds *)

MaxEvents == 2      \* registered events
MaxBatch  == 2      \* arguments of one RegisterSources / RegisterEvents call
MaxLines  == 2      \* matching lines the origins of the sources hold in all
MaxPasses == 2      \* passes of one MeasureUntil run
MaxCalls  == 2      \* invocations of the metadata resolver

(* time.Time has nanosecond resolution; UnixMicro drops what is below a
   microsecond. *)
NanosPerMicro == 1000

\* Source timestamps, in nanoseconds: two in the same microsecond, one later.
Stamps == {1000, 1500, 2000}

\* nil: of a string-like value (a Source, an error), and of a struct pointer
Nil   == "nil"
None  == [nil |-> TRUE]
NoSrc == "none"

-----------------------------------------------------------------------------
(* Sources and events the caller can construct *)

SrcNames == {"messages", "awsnode"}

\* Source objects; m1 and m2 are two sources that both answer Name() = "messages".
SrcObjs == {"m1", "m2", "a1"}

Name(s) == IF s \in {"m1", "m2"} THEN "messages" ELSE "awsnode"

\* Event descriptors (the immutable fields of sources.Event).
Catalogue ==
    <<[Name |-> "Kube-APIServer Throttled", Metric |-> "kube_apiserver_throttled",
       SrcName |-> "messages", Terminal |-> FALSE, MatchSelector |-> "all"],
      [Name |-> "VPC CNI Plugin Initialized", Metric |-> "vpc_cni_plugin_initialized",
       SrcName |-> "awsnode", Terminal |-> FALSE, MatchSelector |-> "first"],
      [Name |-> "Pod Ready", Metric |-> "pod_ready",
       SrcName |-> "messages", Terminal |-> TRUE, MatchSelector |-> "all"],
      [Name |-> "Node Ready", Metric |-> "node_ready",
       SrcName |-> "awsnode", Terminal |-> TRUE, MatchSelector |-> "first"]>>

EventIds == DOMAIN Catalogue

Terminal(e) == Catalogue[e].Terminal

-----------------------------------------------------------------------------
(* Sequence helpers *)

SeqsUpTo(S, n) == UNION {[1..k -> S] : k \in 0..n}

Range(s) == {s[i] : i \in DOMAIN s}

NoDup(s) == \A i, j \in DOMAIN s : i # j => s[i] # s[j]

Max(a, b) == IF a >= b THEN a ELSE b

-----------------------------------------------------------------------------
(* Registration *)

GetSource(name) == [src |-> sources[name], ok |-> sources[name] # NoSrc]

RECURSIVE RegisterSourcesLoop(_, _)
\* for _, src := range srcs { m.sources[src.Name()] = src }
RegisterSourcesLoop(srcs, reg) ==
    IF srcs = <<>> THEN reg
    ELSE RegisterSourcesLoop(Tail(srcs), [reg EXCEPT ![Name(Head(srcs))] = Head(srcs)])

RECURSIVE RegisterEventsLoop_Abort(_, _)
\* RegisterEventsLoop leaving the loop at the first unknown source
RegisterEventsLoop_Abort(batch, st) ==
    IF batch = <<>> THEN st
    ELSE LET e   == Head(batch)
             src == sources[Catalogue[e].SrcName]
         IN  IF src = NoSrc
             THEN [st EXCEPT !.errs = Append(@, [event |-> Catalogue[e].Name,
                                                 source |-> st.evSrc[e]])]
             ELSE RegisterEventsLoop_Abort(Tail(batch),
                    [st EXCEPT !.evSrc[e] = src, !.events = Append(@, e)])

RECURSIVE RegisterEventsLoop(_, _)
\* the loop of RegisterEvents over the batch; st = [events, evSrc, errs]
RegisterEventsLoop(batch, st) ==
    IF batch = <<>> THEN st
    ELSE LET e   == Head(batch)
             got == GetSource(Catalogue[e].SrcName)
         IN  IF ~got.ok
             THEN RegisterEventsLoop(Tail(batch),
                    [st EXCEPT !.errs = Append(@, [event |-> Catalogue[e].Name,
                                                   source |-> st.evSrc[e]])])
             ELSE RegisterEventsLoop(Tail(batch),
                    [st EXCEPT !.evSrc[e] = got.src,
                               !.events = Append(@, e)])

NoCall == [op |-> "none"]

New ==
    /\ sources = [n \in SrcNames |-> NoSrc]
    /\ events = <<>>
    /\ evSrc = [e \in EventIds |-> Nil]
    /\ imdsClient = FALSE
    /\ metadata = None
    /\ call = NoCall

WithIMDS ==
    /\ imdsClient' = TRUE
    /\ call' = [op |-> "WithIMDS"]
    /\ UNCHANGED <<sources, events, evSrc, metadata>>
    /\ UNCHANGED <<srcVars, passVars, untilVars, metricVars>>

RegisterSources(srcs) ==
    /\ sources' = RegisterSourcesLoop(srcs, sources)
    /\ call' = [op |-> "RegisterSources", srcs |-> srcs]
    /\ UNCHANGED <<events, evSrc, imdsClient, metadata>>
    /\ UNCHANGED <<srcVars, passVars, untilVars, metricVars>>

RegisterEvents(batch) ==
    /\ Len(events) + Len(batch) <= MaxEvents
    /\ LET st == RegisterEventsLoop(batch, [events |-> events, evSrc |-> evSrc, errs |-> <<>>])
       IN  /\ events' = st.events
           /\ evSrc' = st.evSrc
           /\ call' = [op |-> "RegisterEvents", batch |-> batch, before |-> events,
                       srcBefore |-> evSrc, errs |-> st.errs]
    /\ UNCHANGED <<sources, imdsClient, metadata>>
    /\ UNCHANGED <<srcVars, passVars, untilVars, metricVars>>

-----------------------------------------------------------------------------
(* The Source contract: Find and ClearCache.  A source reads its origin once
   and serves every later Find from that read until ClearCache. *)

NoCache == <<>>

\* what a read of the origin of source s yields now
Snapshot(s) == [e \in EventIds |-> IF Catalogue[e].SrcName = Name(s) THEN data[e] ELSE <<>>]

\* the read that source s serves a Find from
Loaded(s) == IF cache[s] = NoCache THEN Snapshot(s) ELSE cache[s]

\* event.Src.Find(event): the occurrences the match selector keeps, and the error
Find(e) ==
    LET lines == Loaded(evSrc[e])[e]
        kept  == IF Catalogue[e].MatchSelector = "first" /\ Len(lines) > 1
                 THEN SubSeq(lines, 1, 1) ELSE lines
    IN  [results |-> [i \in 1..Len(kept) |-> [Timestamp |-> kept[i], Comment |-> i]],
         err     |-> IF derr[e] THEN "find failed" ELSE Nil]

\* the sources a pass over the registered events reads
ReadSources == {evSrc[events[i]] : i \in DOMAIN events}

CacheAfterPass == [s \in SrcObjs |-> IF s \in ReadSources THEN Loaded(s) ELSE cache[s]]

ClearCache(s) ==
    /\ pc = "idle"
    /\ cache[s] # NoCache
    /\ cache' = [cache EXCEPT ![s] = NoCache]
    /\ UNCHANGED <<data, derr>>
    /\ UNCHANGED <<regVars, passVars, untilVars, metricVars>>

-----------------------------------------------------------------------------
(* Measure: one pass *)

UnixMicro(t) == t \div NanosPerMicro

RECURSIVE FindCalls(_)
\* the events the loop over m.events calls Find for, in call order
FindCalls(evs) ==
    IF evs = <<>> THEN <<>> ELSE <<Head(evs)>> \o FindCalls(Tail(evs))

RECURSIVE Collect_Abort(_)
\* Collect leaving the loop at the first event whose source returns an error
Collect_Abort(evs) ==
    IF evs = <<>> THEN <<>>
    ELSE LET event == Head(evs)
             found == Find(event)
         IN  IF found.err # Nil THEN <<>>
             ELSE [i \in DOMAIN found.results |->
                     [Event     |-> event,
                      Timestamp |-> found.results[i].Timestamp,
                      T         |-> 0,
                      Comment   |-> found.results[i].Comment,
                      Error     |-> found.err]]
                  \o Collect_Abort(Tail(evs))

RECURSIVE Collect(_)
\* the loop over m.events: one Timing per result, carrying the event's error
Collect(evs) ==
    IF evs = <<>> THEN <<>>
    ELSE LET event == Head(evs)
             found == Find(event)
         IN  [i \in DOMAIN found.results |->
                 [Event     |-> event,
                  Timestamp |-> found.results[i].Timestamp,
                  T         |-> 0,
                  Comment   |-> found.results[i].Comment,
                  Error     |-> found.err]]
             \o Collect(Tail(evs))

\* Collected with the timings slice kept on the Measurer from pass to pass
Collected_Kept ==
    (IF measurement = None THEN <<>> ELSE measurement.Timings) \o Collect(events)

\* var timings after the loop
Collected == Collect(events)

\* the less function handed to sort.Slice
Less(a, b) == UnixMicro(a.Timestamp) < UnixMicro(b.Timestamp)

RECURSIVE SinkDown(_, _)
\* the inner loop of insertion sort: swap s[j] down while it is less than s[j-1]
SinkDown(s, j) ==
    IF j > 1 /\ Less(s[j], s[j - 1])
    THEN SinkDown([s EXCEPT ![j] = s[j - 1], ![j - 1] = s[j]], j - 1)
    ELSE s

RECURSIVE InsertionSort(_, _)
InsertionSort(s, i) ==
    IF i > Len(s) THEN s ELSE InsertionSort(SinkDown(s, i), i + 1)

\* sort.Slice sorts a slice of at most this many elements by insertion
MaxInsertion == 12

RECURSIVE SortedOrders(_, _)
\* the orders of the elements of s at the positions in rest that are sorted by
\* Less: elements neither of which is less than the other come in any order
SortedOrders(s, rest) ==
    IF rest = {} THEN {<<>>}
    ELSE UNION {{<<s[i]>> \o t : t \in SortedOrders(s, rest \ {i})} :
                i \in {i \in rest : \A j \in rest : ~Less(s[j], s[i])}}

\* sort.Slice: the orders it may leave the slice in.  Up to MaxInsertion
\* elements it is an insertion sort; a longer slice is sorted by a quicksort
\* that is not stable ("equal elements may be reversed from their original
\* order"), so any sorted order is a possible outcome.
SortSlice(s) ==
    IF Len(s) <= MaxInsertion THEN {InsertionSort(s, 2)} ELSE SortedOrders(s, DOMAIN s)

\* lo.FindLastIndexOf(timings, t.Event.Terminal): the index, 0 when none
FindLastIndexOf(timings) ==
    LET hits == {i \in DOMAIN timings : Terminal(timings[i].Event)}
    IN  IF hits = {} THEN 0 ELSE CHOOSE i \in hits : \A j \in hits : j <= i

Truncate(timings) ==
    LET lastTerminalIndex == FindLastIndexOf(timings)
    IN  IF lastTerminalIndex > 0 THEN SubSeq(timings, 1, lastTerminalIndex) ELSE timings

\* t.T = t.Timestamp.Sub(timings[0].Timestamp), for every t
Normalize(timings) ==
    [i \in DOMAIN timings |-> [timings[i] EXCEPT !.T = timings[i].Timestamp - timings[1].Timestamp]]

\* the Timing sequences a pass may return
PassTimings == {Normalize(Truncate(sorted)) : sorted \in SortSlice(Collected)}

\* the instance identity document the resolver returns
IdDoc == [Region |-> "us-east-2", InstanceType |-> "m5.large",
          AvailabilityZone |-> "us-east-2a", AMIID |-> "ami-1"]

\* getMetadata; imdsOk is whether GetInstanceIdentityDocument succeeds this time
GetMetadata(imdsOk) ==
    IF metadata # None THEN [md |-> metadata, invoked |-> FALSE, err |-> FALSE]
    ELSE IF ~imdsClient THEN [md |-> None, invoked |-> FALSE, err |-> TRUE]
    ELSE IF ~imdsOk THEN [md |-> None, invoked |-> TRUE, err |-> TRUE]
    ELSE [md |-> IdDoc, invoked |-> TRUE, err |-> FALSE]

\* MeasureEffect returning nil when the metadata cannot be resolved
MeasureEffect_Fatal(imdsOk) ==
    LET got == GetMetadata(imdsOk)
    IN  /\ measurement' \in IF got.err THEN {None}
                             ELSE {[Metadata |-> got.md, Timings |-> t] : t \in PassTimings}
        /\ imdsCalls' = imdsCalls + (IF got.invoked THEN 1 ELSE 0)
        /\ resolved' = (resolved \/ (got.invoked /\ ~got.err))
        /\ hist' = [cold  |-> \A s \in SrcObjs : cache[s] = NoCache,
                    fresh |-> \A s \in ReadSources : Loaded(s) = Snapshot(s),
                    data  |-> data,
                    derr  |-> derr,
                    finds |-> FindCalls(events),
                    mdErr |-> got.err]
        /\ UNCHANGED <<data, derr>>
        /\ UNCHANGED regVars

\* the effect of one Measure call on the measurer, the sources and the history
MeasureEffect(imdsOk) ==
    LET got == GetMetadata(imdsOk)
    IN  /\ measurement' \in {[Metadata |-> got.md, Timings |-> t] : t \in PassTimings}
        /\ imdsCalls' = imdsCalls + (IF got.invoked THEN 1 ELSE 0)
        /\ resolved' = (resolved \/ (got.invoked /\ ~got.err))
        /\ hist' = [cold  |-> \A s \in SrcObjs : cache[s] = NoCache,
                    fresh |-> \A s \in ReadSources : Loaded(s) = Snapshot(s),
                    data  |-> data,
                    derr  |-> derr,
                    finds |-> FindCalls(events),
                    mdErr |-> got.err]
        /\ UNCHANGED <<data, derr>>
        /\ UNCHANGED regVars

Measure(imdsOk) ==
    /\ pc = "idle"
    /\ imdsCalls < MaxCalls
    /\ MeasureEffect(imdsOk)
    /\ UNCHANGED passes
    /\ cache' = CacheAfterPass
    /\ prev' = IF measurement = None THEN None
               ELSE [Timings |-> measurement.Timings, Metadata |-> measurement.Metadata,
                     fresh |-> hist.fresh, data |-> hist.data, derr |-> hist.derr]
    /\ UNCHANGED <<untilVars, metricVars>>

\* the matching lines the origins hold in all
TotalLines == Cardinality({<<e, i>> \in EventIds \X (1..MaxLines) : i <= Len(data[e])})

\* the next line of a growing log carries a later microsecond than the lines before
NextStamp == NanosPerMicro * (1 + TotalLines)

\* the source of event e starts or stops failing; while MeasureUntil sleeps a
\* failing source may recover
SourceFail(e) ==
    /\ pc = "idle" \/ (pc = "sleep" /\ derr[e])
    /\ e \in Range(events)
    /\ derr' = [derr EXCEPT ![e] = ~@]
    /\ UNCHANGED <<data, cache>>
    /\ UNCHANGED passVars
    /\ UNCHANGED <<regVars, untilVars, metricVars>>

\* the origin of a source gains a line that matches event e
SourceAppend(e, t) ==
    /\ pc \in {"idle", "sleep"}
    /\ e \in Range(events)
    /\ TotalLines < MaxLines
    /\ data' = [data EXCEPT ![e] = Append(@, t)]
    /\ UNCHANGED <<derr, cache>>
    /\ UNCHANGED passVars
    /\ UNCHANGED <<regVars, untilVars, metricVars>>

-----------------------------------------------------------------------------
(* MeasureUntil *)

MaxTimeout == 2     \* largest timeout a caller passes
MaxDelay   == 1     \* largest retry delay a caller passes

Timeouts == -1..MaxTimeout
Delays   == 0..MaxDelay

\* lo.CountBy(m.events, e.Terminal)
TerminalEvents == Cardinality({i \in DOMAIN events : Terminal(events[i])})

\* lo.CountBy(measurement.Timings, t.Error == nil)
MeasuredEvents(timings) == Cardinality({i \in DOMAIN timings : timings[i].Error = Nil})

\* lo.CountBy(measurement.Timings, t.Event.Terminal && t.Error == nil)
MeasuredTerminalEvents(timings) ==
    Cardinality({i \in DOMAIN timings : Terminal(timings[i].Event) /\ timings[i].Error = Nil})

\* IsDone asking for more error-free Timings than there are events
IsDone_Strict(timings) ==
    \/ TerminalEvents > 0 /\ TerminalEvents = MeasuredTerminalEvents(timings)
    \/ TerminalEvents = 0 /\ MeasuredEvents(timings) > Len(events)

\* the completion policy evaluated after a pass
IsDone(timings) ==
    \/ TerminalEvents > 0 /\ TerminalEvents = MeasuredTerminalEvents(timings)
    \/ TerminalEvents = 0 /\ MeasuredEvents(timings) >= Len(events)

\* for _, s := range m.sources { s.ClearCache() }
ClearAll(c) == [s \in SrcObjs |-> IF \E n \in SrcNames : sources[n] = s THEN NoCache ELSE c[s]]

NoPass == [ran |-> FALSE]

UntilStart(to, rd) ==
    /\ pc = "idle"
    /\ pc' = "check"
    /\ startTime' = now
    /\ timeout' = to
    /\ retryDelay' = rd
    /\ done' = FALSE
    /\ measurement' = None
    /\ passes' = 0
    /\ UNCHANGED <<now, result, lastPass, prev, hist, imdsCalls, resolved>>
    /\ UNCHANGED <<regVars, srcVars, metricVars>>

\* the loop condition: !done && time.Since(startTime) < timeout
UntilCheck ==
    /\ pc = "check"
    /\ IF ~done /\ now - startTime < timeout
       THEN pc' = "pass" /\ UNCHANGED result
       ELSE pc' = "returned" /\ result' = measurement
    /\ UNCHANGED <<startTime, now, timeout, retryDelay, done, lastPass>>
    /\ UNCHANGED <<regVars, srcVars, passVars, metricVars>>

\* the loop body up to time.Sleep: the pass, the policy, return or ClearCache
UntilPass(imdsOk) ==
    /\ pc = "pass"
    /\ passes < MaxPasses
    /\ imdsCalls < MaxCalls
    /\ MeasureEffect(imdsOk)
    /\ passes' = passes + 1
    /\ LET isDone == IsDone(measurement'.Timings)
       IN  /\ done' = isDone
           /\ lastPass' = [ran |-> TRUE,
                           terminalEvents |-> TerminalEvents,
                           measuredEvents |-> MeasuredEvents(measurement'.Timings),
                           measuredTerminalEvents |-> MeasuredTerminalEvents(measurement'.Timings),
                           cleared |-> ~isDone]
           /\ IF isDone
              THEN /\ pc' = "returned"
                   /\ result' = measurement'
                   /\ cache' = CacheAfterPass
              ELSE /\ pc' = "sleep"
                   /\ cache' = ClearAll(CacheAfterPass)
                   /\ UNCHANGED result
    /\ UNCHANGED <<startTime, now, timeout, retryDelay, prev>>
    /\ UNCHANGED metricVars

\* UntilSleep with the delay clamped to what is left of the timeout
UntilSleep_Clamped ==
    /\ pc = "sleep"
    /\ pc' = "check"
    /\ now' = now + (IF retryDelay >= timeout THEN 0 ELSE Max(retryDelay, 0))
    /\ UNCHANGED <<startTime, timeout, retryDelay, done, result, lastPass>>
    /\ UNCHANGED <<regVars, srcVars, passVars, metricVars>>

\* time.Sleep(retryDelay)
UntilSleep ==
    /\ pc = "sleep"
    /\ pc' = "check"
    /\ now' = now + Max(retryDelay, 0)
    /\ UNCHANGED <<startTime, timeout, retryDelay, done, result, lastPass>>
    /\ UNCHANGED <<regVars, srcVars, passVars, metricVars>>

\* time passes while MeasureUntil runs (before the loop condition is read, and
\* during a pass); once the timeout is reached more time changes nothing
Tick ==
    /\ pc \in {"check", "pass"}
    /\ now - startTime < timeout
    /\ now' = now + 1
    /\ UNCHANGED <<pc, startTime, timeout, retryDelay, done, result, lastPass>>
    /\ UNCHANGED <<regVars, srcVars, passVars, metricVars>>

-----------------------------------------------------------------------------
(* Metric projection *)

Experiments == {"exp-1"}

MetricNames == {Catalogue[e].Metric : e \in EventIds}

\* a metric name the registerer holds no collector for
Unregistered == [registered |-> FALSE, samples |-> {}]

\* most Timings a Measurement holds
MaxCw == MaxLines

\* metricDimensions
MetricDimensions(m, experimentDimension) ==
    IF m.Metadata = None
    THEN [experiment |-> experimentDimension]
    ELSE [experiment |-> experimentDimension,
          instanceType |-> m.Metadata.InstanceType,
          amiID |-> m.Metadata.AMIID,
          region |-> m.Metadata.Region,
          availabilityZone |-> m.Metadata.AvailabilityZone]

\* lo.UniqBy(m.Timings, t.Event.Metric): the metric names that get a collector
UniqMetrics(timings) == {Catalogue[timings[i].Event].Metric : i \in DOMAIN timings}

\* collector.With(dimensions).Set(v): the child with these labels holds v
SetGauge(samples, dimensions, v) ==
    {x \in samples : x.labels # dimensions} \cup {[labels |-> dimensions, value |-> v]}

RECURSIVE SetGauges(_, _, _)
\* the second loop of RegisterMetrics over the collectors created by the first
SetGauges(timings, dimensions, collectors) ==
    IF timings = <<>> THEN collectors
    ELSE LET metric == Catalogue[Head(timings).Event].Metric
         IN  IF metric \notin DOMAIN collectors
             THEN SetGauges(Tail(timings), dimensions, collectors)
             ELSE SetGauges(Tail(timings), dimensions,
                            [collectors EXCEPT ![metric] = SetGauge(@, dimensions, Head(timings).T)])

\* register is the registerer: a collector whose name it already holds is refused
\* (logged) and the registerer keeps exposing the collector it has
RegisterMetrics(experimentDimension) ==
    /\ pc = "idle"
    /\ measurement # None
    /\ LET dimensions == MetricDimensions(measurement, experimentDimension)
           created    == [n \in UniqMetrics(measurement.Timings) |-> {}]
           collectors == SetGauges(measurement.Timings, dimensions, created)
       IN  /\ prom' = [n \in MetricNames |->
                          IF prom[n] = Unregistered /\ n \in DOMAIN collectors
                          THEN [registered |-> TRUE, samples |-> collectors[n]]
                          ELSE prom[n]]
           /\ call' = [op |-> "RegisterMetrics", n |-> Len(measurement.Timings),
                       refused |-> {n \in DOMAIN collectors : prom[n] # Unregistered}]
    /\ UNCHANGED <<sources, events, evSrc, imdsClient, metadata, cw, table>>
    /\ UNCHANGED <<srcVars, passVars, untilVars>>

RECURSIVE PutAll(_, _, _, _)
\* the loop of EmitCloudWatchMetrics: one PutMetricData per Timing; the calls
\* numbered in failing return an error, which is appended to errs
PutAll(timings, i, dimensions, failing) ==
    IF i > Len(timings) THEN <<>>
    ELSE (IF i \in failing THEN <<>>
          ELSE <<[MetricName |-> Catalogue[timings[i].Event].Metric,
                  Value |-> timings[i].T,
                  Dimensions |-> dimensions]>>)
         \o PutAll(timings, i + 1, dimensions, failing)

EmitCloudWatchMetrics(experimentDimension, failing) ==
    /\ pc = "idle"
    /\ measurement # None
    /\ failing \subseteq DOMAIN measurement.Timings
    /\ cw = <<>>
    /\ cw' = cw \o PutAll(measurement.Timings, 1,
                          MetricDimensions(measurement, experimentDimension), failing)
    /\ call' = [op |-> "EmitCloudWatchMetrics", n |-> Len(measurement.Timings),
                before |-> Len(cw), errs |-> Cardinality(failing)]
    /\ UNCHANGED <<sources, events, evSrc, imdsClient, metadata, prom, table>>
    /\ UNCHANGED <<srcVars, passVars, untilVars>>

-----------------------------------------------------------------------------
(* Chart *)

MaxHidden == 2      \* entries of ChartOptions.HiddenColumns

\* seconds are 10^9 nanoseconds
NanosPerSecond == 1000000000

\* Text that is compared letter by letter is a sequence of one-letter strings.
Upper == <<"A", "B", "C", "D", "E", "F", "G", "H", "I", "J", "K", "L", "M",
           "N", "O", "P", "Q", "R", "S", "T", "U", "V", "W", "X", "Y", "Z">>
Lower == <<"a", "b", "c", "d", "e", "f", "g", "h", "i", "j", "k", "l", "m",
           "n", "o", "p", "q", "r", "s", "t", "u", "v", "w", "x", "y", "z">>

\* simple case folding of a letter
Fold(c) == IF \E k \in DOMAIN Upper : Upper[k] = c
           THEN Lower[CHOOSE k \in DOMAIN Upper : Upper[k] = c] ELSE c

\* strings.EqualFold
EqualFold(s, t) == Len(s) = Len(t) /\ \A k \in DOMAIN s : Fold(s[k]) = Fold(t[k])

ChartColumnEvent     == <<"E", "v", "e", "n", "t">>
ChartColumnTimestamp == <<"T", "i", "m", "e", "s", "t", "a", "m", "p">>
ChartColumnT         == <<"T">>
ChartColumnComment   == <<"C", "o", "m", "m", "e", "n", "t">>

\* headers := []string{...} in Chart
Headers == <<ChartColumnEvent, ChartColumnTimestamp, ChartColumnT, ChartColumnComment>>

\* column names a caller may put in ChartOptions.HiddenColumns
HiddenNames ==
    {<<"e", "v", "e", "n", "t">>,
     <<"T", "I", "M", "E", "S", "T", "A", "M", "P">>,
     <<"t">>,
     <<"c", "o", "m", "m", "e", "n", "t">>,
     <<"e", "v", "e", "n", "t", "s">>}

\* the inner loop of filterColumns: index i is appended once for every entry
\* of hiddenColumns that matches the header
HiddenAt(hiddenColumns, header, i) ==
    [k \in 1..Len(SelectSeq(hiddenColumns, LAMBDA h : EqualFold(h, header))) |-> i]

RECURSIVE HiddenColIndexes_First(_, _, _)
\* HiddenColIndexes leaving the outer loop at the first hidden column found
HiddenColIndexes_First(hiddenColumns, headers, i) ==
    IF i > Len(headers) THEN <<>>
    ELSE IF HiddenAt(hiddenColumns, headers[i], i) # <<>> THEN <<i>>
    ELSE HiddenColIndexes_First(hiddenColumns, headers, i + 1)

RECURSIVE HiddenColIndexes(_, _, _)
\* the first loop of filterColumns, from header i on: hiddenColIndexes
HiddenColIndexes(hiddenColumns, headers, i) ==
    IF i > Len(headers) THEN <<>>
    ELSE HiddenAt(hiddenColumns, headers[i], i)
         \o HiddenColIndexes(hiddenColumns, headers, i + 1)

RECURSIVE FilteredData(_, _, _)
\* the second loop of filterColumns, from cell i of the data argument on: filteredData
FilteredData(hiddenColIndexes, cells, i) ==
    IF i > Len(cells) THEN <<>>
    ELSE (IF i \in Range(hiddenColIndexes) THEN <<>> ELSE <<cells[i]>>)
         \o FilteredData(hiddenColIndexes, cells, i + 1)

filterColumns(hiddenColumns, headers, cells) ==
    FilteredData(HiddenColIndexes(hiddenColumns, headers, 1), cells, 1)

\* t.Timestamp.Format("2006-01-02T15:04:05Z"): the time cut to whole seconds
FormatTimestamp(t) == ToString(t \div NanosPerSecond) \o "Z"

\* fmt.Sprintf("%.0fs", t.T.Seconds()): seconds rounded half to even, the sign kept
FormatT(d) ==
    LET a == IF d < 0 THEN 0 - d ELSE d
        q == a \div NanosPerSecond
        r == a % NanosPerSecond
        n == IF 2 * r > NanosPerSecond \/ (2 * r = NanosPerSecond /\ q % 2 = 1)
             THEN q + 1 ELSE q
    IN  (IF d < 0 THEN "-" ELSE "") \o ToString(n) \o "s"

\* the cells of the row of one Timing
Row(t) == <<Catalogue[t.Event].Name, FormatTimestamp(t.Timestamp), FormatT(t.T),
            ToString(t.Comment)>>

NoTable == [rendered |-> FALSE]

\* the report is printed once
Chart(hiddenColumns) ==
    /\ pc = "idle"
    /\ measurement # None
    /\ table = NoTable
    /\ table' = [rendered |-> TRUE,
                 banner   |-> measurement.Metadata # None,
                 header   |-> filterColumns(hiddenColumns, Headers, Headers),
                 rows     |-> [i \in DOMAIN measurement.Timings |->
                                 filterColumns(hiddenColumns, Headers,
                                               Row(measurement.Timings[i]))]]
    /\ call' = [op |-> "Chart", hidden |-> hiddenColumns]
    /\ UNCHANGED <<sources, events, evSrc, imdsClient, metadata, prom, cw>>
    /\ UNCHANGED <<srcVars, passVars, untilVars>>

-----------------------------------------------------------------------------
(* Specifications *)

NoHist == [cold |-> TRUE, fresh |-> TRUE, data |-> <<>>, derr |-> <<>>,
           finds |-> <<>>, mdErr |-> FALSE]

\* no source has read its origin, no pass has run
NoPasses ==
    /\ cache = [s \in SrcObjs |-> NoCache]
    /\ prev = None
    /\ hist = NoHist
    /\ passes = 0
    /\ imdsCalls = 0
    /\ resolved = FALSE

\* MeasureUntil is not running
NotRunning ==
    /\ pc = "idle"
    /\ startTime = 0
    /\ now = 0
    /\ timeout = 0
    /\ retryDelay = 0
    /\ done = FALSE
    /\ result = None
    /\ lastPass = NoPass

\* nothing was projected
NoMetrics ==
    /\ prom = [n \in MetricNames |-> Unregistered]
    /\ cw = <<>>
    /\ table = NoTable

Idle == NoPasses /\ measurement = None /\ NotRunning /\ NoMetrics

\* the origins hold nothing
EmptyOrigins ==
    /\ data = [e \in EventIds |-> <<>>]
    /\ derr = [e \in EventIds |-> FALSE]

RECURSIVE LinesOf(_, _)
\* the stamps of the lines of log that match event e, in log order
LinesOf(log, e) ==
    IF log = <<>> THEN <<>>
    ELSE (IF Head(log)[1] = e THEN <<Head(log)[2]>> ELSE <<>>) \o LinesOf(Tail(log), e)

\* the origins hold any lines for the registered events
AnyLines ==
    \E log \in SeqsUpTo(Range(events) \X Stamps, MaxLines) :
        data = [e \in EventIds |-> LinesOf(log, e)]

\* any source of a registered event may be failing
AnyFailing ==
    \E f \in [Range(events) -> BOOLEAN] :
        derr = [e \in EventIds |-> IF e \in Range(events) THEN f[e] ELSE FALSE]

AnyOrigins == AnyLines /\ AnyFailing

\* a measurer after its setup phase, as Spec reaches it: the sources its
\* events name are registered, and every event of the list is bound to the
\* source registered under its source name
SetUp ==
    /\ events \in SeqsUpTo(EventIds, MaxEvents)
    /\ NoDup(events)
    /\ sources = [n \in SrcNames |->
                    IF \E i \in DOMAIN events : Catalogue[events[i]].SrcName = n
                    THEN (IF n = "messages" THEN "m1" ELSE "a1") ELSE NoSrc]
    /\ evSrc = [e \in EventIds |-> IF e \in Range(events)
                                    THEN sources[Catalogue[e].SrcName] ELSE Nil]
    /\ metadata = None
    /\ call = NoCall

\* a measurer after its setup phase, as Spec reaches it when a source was
\* registered again under its name: an event registered before that is still
\* bound to the replaced Source ("m2"), one registered after it to the new one
Rebound ==
    /\ events \in SeqsUpTo(EventIds, MaxEvents)
    /\ NoDup(events)
    /\ sources = [n \in SrcNames |->
                    IF \E i \in DOMAIN events : Catalogue[events[i]].SrcName = n
                    THEN (IF n = "messages" THEN "m1" ELSE "a1") ELSE NoSrc]
    /\ \E old \in SUBSET {e \in Range(events) : Catalogue[e].SrcName = "messages"} :
          evSrc = [e \in EventIds |->
                     IF e \in old THEN "m2"
                     ELSE IF e \in Range(events) THEN sources[Catalogue[e].SrcName]
                     ELSE Nil]
    /\ metadata = None
    /\ call = NoCall

Init == New /\ EmptyOrigins /\ Idle

Next ==
    \/ WithIMDS
    \/ \E srcs \in SeqsUpTo(SrcObjs, MaxBatch) : RegisterSources(srcs)
    \/ \E batch \in SeqsUpTo(EventIds, MaxBatch) : RegisterEvents(batch)

Spec == Init /\ [][Next]_vars

InitPass == SetUp /\ imdsClient = FALSE /\ AnyOrigins /\ Idle

NextPass ==
    \/ \E imdsOk \in BOOLEAN : Measure(imdsOk)
    \/ \E s \in SrcObjs : ClearCache(s)

SpecPass == InitPass /\ [][NextPass]_vars

\* a log longer than what sort.Slice sorts by insertion
SortLen == MaxInsertion + 1

\* passes over one all-matches event whose source holds SortLen lines, a line
\* per microsecond but for line tie + 1, which carries the microsecond of line tie
InitSort ==
    /\ \E e \in {1, 3} :
          /\ events = <<e>>
          /\ \E tie \in 1..(SortLen - 1) :
                data = [x \in EventIds |->
                          IF x = e
                          THEN [i \in 1..SortLen |->
                                  NanosPerMicro * (IF i = tie + 1 THEN tie ELSE i)]
                          ELSE <<>>]
    /\ sources = [n \in SrcNames |-> IF n = "messages" THEN "m1" ELSE NoSrc]
    /\ evSrc = [x \in EventIds |-> IF x \in Range(events) THEN "m1" ELSE Nil]
    /\ imdsClient = FALSE
    /\ metadata = None
    /\ call = NoCall
    /\ AnyFailing
    /\ Idle

SpecSort == InitSort /\ [][NextPass]_vars

InitUntil == Rebound /\ imdsClient = FALSE /\ EmptyOrigins /\ Idle

NextUntil ==
    \/ \E to \in Timeouts, rd \in Delays : UntilStart(to, rd)
    \/ UntilCheck
    \/ \E imdsOk \in BOOLEAN : UntilPass(imdsOk)
    \/ UntilSleep
    \/ Tick
    \/ \E e \in EventIds : SourceAppend(e, NextStamp)
    \/ \E e \in EventIds : SourceFail(e)

SpecUntil == InitUntil /\ [][NextUntil]_vars

\* Measure passes of a measurer that may be given an IMDS client
InitMeta ==
    /\ SetUp /\ imdsClient = FALSE
    /\ AnyLines /\ derr = [e \in EventIds |-> FALSE]
    /\ Idle

NextMeta ==
    \/ pc = "idle" /\ ~imdsClient /\ WithIMDS
    \/ \E imdsOk \in BOOLEAN : Measure(imdsOk)

SpecMeta == InitMeta /\ [][NextMeta]_vars

InitMetric ==
    /\ SetUp /\ imdsClient = TRUE
    /\ AnyLines /\ derr = [e \in EventIds |-> FALSE]
    /\ Idle

NextMetric ==
    \/ \E imdsOk \in BOOLEAN : Measure(imdsOk)
    \/ \E x \in Experiments : RegisterMetrics(x)
    \/ \E x \in Experiments, failing \in {{}} \cup {{i} : i \in 1..MaxCw} : EmitCloudWatchMetrics(x, failing)

SpecMetric == InitMetric /\ [][NextMetric]_vars

InitChart ==
    /\ SetUp /\ imdsClient = TRUE
    /\ AnyLines /\ derr = [e \in EventIds |-> FALSE]
    /\ Idle

NextChart ==
    \/ \E imdsOk \in BOOLEAN : Measure(imdsOk)
    \/ \E hiddenColumns \in SeqsUpTo(HiddenNames, MaxHidden) : Chart(hiddenColumns)

SpecChart == InitChart /\ [][NextChart]_vars

-----------------------------------------------------------------------------
(* Properties *)

Timings == measurement.Timings

Known(e) == sources[Catalogue[e].SrcName] # NoSrc

\* C1: in every Measurement with at least one Timing the first T is zero and T
\* never decreases along the sequence.
C1_TMonotone ==
    (measurement # None /\ Len(Timings) >= 1) =>
        /\ Timings[1].T = 0
        /\ \A i, j \in DOMAIN Timings : i <= j => Timings[i].T <= Timings[j].T

\* C2: a Measurement with a terminal Timing ends in a terminal Timing and holds
\* no Timing stamped later than its latest terminal Timing; a pass with no
\* terminal Timing keeps every Timing the sources produced.
C2_Truncation ==
    measurement # None =>
        LET terminals == {i \in DOMAIN Timings : Terminal(Timings[i].Event)}
        IN  /\ terminals # {} =>
                  /\ Terminal(Timings[Len(Timings)].Event)
                  /\ \A i \in DOMAIN Timings : \E k \in terminals :
                         Timings[i].Timestamp <= Timings[k].Timestamp
            /\ (\A i \in DOMAIN Collected : ~Terminal(Collected[i].Event)) =>
                  Len(Timings) = Len(Collected)

\* C3: RegisterEvents returns one error per event of the batch whose source is
\* not registered, naming it, in batch order; it appends exactly the other
\* events of the batch, in batch order, each bound to the registered source.
C3_RegisterEvents ==
    call.op = "RegisterEvents" =>
        LET unknown == SelectSeq(call.batch, LAMBDA e : ~Known(e))
            known   == SelectSeq(call.batch, LAMBDA e : Known(e))
        IN  /\ Len(call.errs) = Len(unknown)
            /\ \A k \in DOMAIN unknown : call.errs[k].event = Catalogue[unknown[k]].Name
            /\ events = call.before \o known
            /\ \A k \in DOMAIN known : evSrc[known[k]] = sources[Catalogue[known[k]].SrcName]
            /\ \A e \in EventIds : e \notin Range(known) => evSrc[e] = call.srcBefore[e]

\* a batch with an event of an unknown source ahead of one of a known source
C3_Witness ==
    /\ call.op = "RegisterEvents"
    /\ \E i, j \in DOMAIN call.batch : i < j /\ ~Known(call.batch[i]) /\ Known(call.batch[j])
    /\ Len(events) > Len(call.before)

\* C4: whatever the timeout, MeasureUntil returns a Measurement, never nil.
C4_NeverNil == pc = "returned" => result # None

\* C5: with a terminal event registered, MeasureUntil returns as done only a
\* Measurement that holds an error-free Timing of every registered terminal event.
C5_AllTerminalsMeasured ==
    (pc = "returned" /\ done /\ TerminalEvents > 0) =>
        \A i \in DOMAIN events : Terminal(events[i]) =>
            \E k \in DOMAIN result.Timings :
                result.Timings[k].Event = events[i] /\ result.Timings[k].Error = Nil

\* C6: with no terminal event registered, MeasureUntil returns as done only a
\* Measurement that holds an error-free Timing of every registered event.
C6_AllEventsMeasured ==
    (pc = "returned" /\ done /\ TerminalEvents = 0) =>
        \A i \in DOMAIN events :
            \E k \in DOMAIN result.Timings :
                result.Timings[k].Event = events[i] /\ result.Timings[k].Error = Nil

\* C7: when a registered terminal event is never matched, MeasureUntil returns
\* only once the timeout has elapsed, and its last pass measured fewer terminal
\* Timings than there are terminal events.
C7_RunsToTimeout ==
    (/\ pc = "returned"
     /\ lastPass.ran
     /\ \E i \in DOMAIN events : Terminal(events[i]) /\ data[events[i]] = <<>>) =>
        /\ now - startTime >= timeout
        /\ lastPass.measuredTerminalEvents < lastPass.terminalEvents

\* C8: once the metadata resolver has succeeded it is not invoked again.
C8_ResolvedOnce == [][resolved => imdsCalls' = imdsCalls]_vars

RECURSIVE SumSamples(_)
SumSamples(names) ==
    IF names = {} THEN 0
    ELSE LET n == CHOOSE x \in names : TRUE
         IN  Cardinality(prom[n].samples) + SumSamples(names \ {n})

\* C10: a Measurement of N Timings projects to N samples: the registerer
\* exposes N sample values after RegisterMetrics, and CloudWatch has received N
\* after EmitCloudWatchMetrics.
C10_IndependentSamples ==
    /\ (call.op = "RegisterMetrics" /\ call.refused = {}) =>
           SumSamples(MetricNames) = call.n
    /\ (call.op = "EmitCloudWatchMetrics" /\ call.errs = 0) =>
           Len(cw) - call.before = call.n

\* the positions of Headers that no entry of hidden names, whatever its case
KeptColumns(hidden) ==
    SelectSeq(<<1, 2, 3, 4>>,
              LAMBDA i : \A k \in DOMAIN hidden : ~EqualFold(hidden[k], Headers[i]))

\* C11: Chart renders, in the header and in every row, exactly the cells of
\* the columns that no hidden name matches (case-insensitively), in their
\* original order; there is one row per Timing.
C11_ColumnHiding ==
    call.op = "Chart" =>
        LET keep == KeptColumns(call.hidden)
        IN  /\ table.header = [k \in DOMAIN keep |-> Headers[keep[k]]]
            /\ DOMAIN table.rows = DOMAIN Timings
            /\ \A r \in DOMAIN Timings :
                   table.rows[r] = [k \in DOMAIN keep |-> Row(Timings[r])[keep[k]]]

\* two columns hidden by names in another case, one name that matches nothing,
\* and a row rendered
C11_Witness ==
    /\ call.op = "Chart"
    /\ Len(KeptColumns(call.hidden)) = 2
    /\ \E k \in DOMAIN call.hidden : call.hidden[k] \notin Range(Headers)
    /\ Len(table.header) = 2
    /\ Len(Timings) >= 1

\* C12: the error of a failing source is on every Timing of its event, and the
\* Measurement holds a Timing carrying it also when the source returned no
\* occurrence (nothing being cut off by a terminal Timing).
C12_ErrorObservable ==
    measurement # None =>
        \A i \in DOMAIN events : derr[events[i]] =>
            /\ \A k \in DOMAIN Timings :
                   Timings[k].Event = events[i] => Timings[k].Error # Nil
            /\ (\A j \in DOMAIN Collected : ~Terminal(Collected[j].Event)) =>
                   \E k \in DOMAIN Timings :
                       Timings[k].Event = events[i] /\ Timings[k].Error # Nil

\* the place of Timing t in the order of collection
CollectedAt(t) ==
    CHOOSE k \in DOMAIN Collected :
        Collected[k].Event = t.Event /\ Collected[k].Comment = t.Comment

\* C13: the Timings of a Measurement ascend by microsecond, and Timings of one
\* microsecond are in the order of their collection, however many there are.
C13_StableSort ==
    measurement # None =>
        \A i, j \in DOMAIN Timings : i < j =>
            /\ UnixMicro(Timings[i].Timestamp) <= UnixMicro(Timings[j].Timestamp)
            /\ UnixMicro(Timings[i].Timestamp) = UnixMicro(Timings[j].Timestamp) =>
                   CollectedAt(Timings[i]) < CollectedAt(Timings[j])

\* C14: a pass of MeasureUntil after the first finds every cache empty; while
\* MeasureUntil sleeps the cache of every registered source is clear; a pass
\* that satisfies the completion policy is returned at once, nothing cleared.
C14_CacheProtocol ==
    /\ passes >= 2 => hist.cold
    /\ pc = "sleep" =>
           \A n \in SrcNames : sources[n] # NoSrc => cache[sources[n]] = NoCache
    /\ (pc = "returned" /\ lastPass.ran /\ done) =>
           ~lastPass.cleared /\ result = measurement

\* C19: every event of the active list is bound to the Source the registry
\* holds under the event's source name.
C19_BoundToRegistry ==
    \A i \in DOMAIN events :
        evSrc[events[i]] = sources[Catalogue[events[i]].SrcName]

\* the Timings of event e among timings, in their order
TimingsOf(timings, e) == SelectSeq(timings, LAMBDA t : t.Event = e)

\* the number of occurrences the match selector of event e keeps of its lines
KeptOf(e) ==
    IF Catalogue[e].MatchSelector = "first" /\ Len(data[e]) > 1 THEN 1 ELSE Len(data[e])

\* the place of event e in the active list
RegisteredAt(e) == CHOOSE i \in DOMAIN events : events[i] = e

\* C15: a pass calls Find once for every registered event, in registration
\* order; every event contributes the occurrences its selector keeps of its
\* own lines, in registration order, whichever sources fail.
C15_EveryEventFound ==
    hist # NoHist =>
        LET collected == Collected
        IN  /\ hist.finds = events
            /\ \A i \in DOMAIN events :
                   LET mine == TimingsOf(collected, events[i])
                   IN  /\ Len(mine) = KeptOf(events[i])
                       /\ \A k \in DOMAIN mine : mine[k].Timestamp = data[events[i]][k]
            /\ \A a, b \in DOMAIN collected :
                   a < b => RegisteredAt(collected[a].Event) <= RegisteredAt(collected[b].Event)

\* a pass over two events: the source of the first fails, the second is measured
C15_Witness ==
    /\ hist # NoHist
    /\ Len(events) = 2
    /\ derr[events[1]] /\ ~derr[events[2]]
    /\ \E k \in DOMAIN Timings : Timings[k].Event = events[2] /\ Timings[k].Error = Nil

\* C16: MeasureUntil clears the caches and sleeps only while the time since
\* it started is under the timeout.
C16_SleepUnderTimeout == pc = "sleep" => now - startTime < timeout

\* C17: with a retry delay not below the timeout MeasureUntil runs at most
\* one pass.
C17_AtMostOnePass == retryDelay >= timeout => passes <= 1

\* one pass that was not done, then the delay used up the timeout
C17_Witness ==
    /\ pc = "returned"
    /\ timeout > 0 /\ retryDelay >= timeout
    /\ passes = 1 /\ ~done
    /\ lastPass.cleared

\* C18: a pass returns a Measurement whether or not the metadata resolves:
\* its Timings are those of the pass whatever the resolver did, and its
\* Metadata is nil exactly when the resolver is absent or failed.
C18_MetadataNonFatal ==
    hist # NoHist =>
        /\ measurement # None
        /\ measurement.Timings \in PassTimings
        /\ hist.mdErr <=> measurement.Metadata = None

\* a pass with an IMDS client whose resolver failed, Timings returned
C18_Witness ==
    /\ hist # NoHist
    /\ imdsClient /\ hist.mdErr
    /\ measurement # None
    /\ measurement.Metadata = None
    /\ Len(measurement.Timings) >= 1

\* a pass of MeasureUntil ran and its sources held nothing for the events
EmptyPass == passes >= 1 /\ \A e \in Range(events) : hist.data[e] = <<>>

=============================================================================
